---- MODULE Spec2Model ----
(***************************************************************************)
(* Model of src/app.py: the report-generation and delivery pipeline of the *)
(* cloud anomaly detection dashboard.  One run of the script is modelled   *)
(* section by section (download section, e-mail button handler, the SMTP   *)
(* session inside send_email step by step); the report generators are      *)
(* operators over a snapshot of the Sample Store.                          *)
(***************************************************************************)
EXTENDS Integers, Sequences, FiniteSets, TLC

\* ------------------------------------------------------------- bounds
\* Longest Sample Store of a modelled session.
MaxHistory == 3
\* Longest snapshot handed to the report generators in SpecReport.
MaxRecords == 12
\* Longest recipient text typed into the text input.
MaxRecipientLen == 2

\* ---------------------------------------------------------- constants
\* df.tail(10)
TailRows == 10
\* "* 100" of the anomaly rate
Percent == 100

\* --------------------------------------------------------------- data
CpuValues == {35, 90}
Predictions == {0, 1}
Records == [cpu_usage : CpuValues, prediction : Predictions]
\* The records of a long snapshot: a flagged sample is a high-CPU sample.
SnapshotRecords ==
  {[cpu_usage |-> IF p = 1 THEN 90 ELSE 35, prediction |-> p] : p \in Predictions}

SeqsUpTo(S, n) == UNION {[1..k -> S] : k \in 0..n}

\* Characters of a recipient text: blank, tab, and a printing character.
Whitespace == {" ", "\t"}
Chars == Whitespace \cup {"a"}

\* str.strip(): leading and trailing whitespace removed.
RECURSIVE LStrip(_)
LStrip(s) ==
  IF s = <<>> THEN <<>>
  ELSE IF Head(s) \in Whitespace THEN LStrip(Tail(s)) ELSE s

RECURSIVE RStrip(_)
RStrip(s) ==
  IF s = <<>> THEN <<>>
  ELSE IF s[Len(s)] \in Whitespace THEN RStrip(SubSeq(s, 1, Len(s) - 1)) ELSE s

Strip(s) == RStrip(LStrip(s))

\* Python values returned by send_email.
PyTrue == [type |-> "bool", v |-> "True"]
PyStr(e) == [type |-> "str", v |-> e]
PyUnset == [type |-> "unset", v |-> ""]

\* A name of the script's namespace that no statement of this run has bound.
Undefined == [kind |-> "undefined"]

\* ------------------------------------------------------ arithmetic
\* Python's true division: a quotient, or the ZeroDivisionError it raises.
\* A float is kept as the exact fraction num/den.
TrueDiv(a, b) ==
  IF b = 0 THEN [fault |-> "ZeroDivisionError", num |-> 0, den |-> 1]
  ELSE [fault |-> "none", num |-> a, den |-> b]

Times(q, k) == [q EXCEPT !.num = @ * k]

\* The integer literal 0 of the else branch, as a number.
Number(n) == [fault |-> "none", num |-> n, den |-> 1]

\* f"{x:.2f}": x rounded to two decimals, ties to even, in hundredths.
\* (Below 32 records no rate lies on a tie, so the float's rounding error
\* cannot move the result.)
Format2f(q) ==
  LET n == q.num * 100
      d == q.den
      lo == n \div d
      r2 == 2 * (n % d)
  IN  IF r2 < d THEN lo
      ELSE IF r2 > d THEN lo + 1
      ELSE IF lo % 2 = 0 THEN lo ELSE lo + 1

\* df[col]
Column(df, col) == [i \in 1..Len(df) |-> df[i][col]]

\* df.tail(n): the last n rows, in order.
DfTail(df, n) ==
  IF Len(df) <= n THEN df ELSE SubSeq(df, Len(df) - n + 1, Len(df))

\* ------------------------------------------------- chart renderers
create_anomaly_chart(df) ==
  [title |-> "Anomaly Trend", series |-> Column(df, "prediction")]

create_cpu_chart(df) ==
  [title |-> "CPU Usage Trend", series |-> Column(df, "cpu_usage")]

\* base64.b64encode(png).decode()
B64(png) == [encoding |-> "base64", of |-> png]

\* ---------------------------------------------------- HTML report
\* Faulty variant of HtmlAnomalies: the normal records are selected.
HtmlAnomaliesInverted(df) == SelectSeq(df, LAMBDA r : r.prediction = 0)

\* df[df["prediction"] == 1]
HtmlAnomalies(df) == SelectSeq(df, LAMBDA r : r.prediction = 1)

\* Faulty variant of HtmlAnomalyRate: the len(df) guard is missing.
HtmlAnomalyRateUnguarded(df) ==
  Times(TrueDiv(Len(HtmlAnomalies(df)), Len(df)), Percent)

\* len(anomalies) / len(df) * 100 if len(df) else 0
HtmlAnomalyRate(df) ==
  IF Len(df) # 0
    THEN Times(TrueDiv(Len(HtmlAnomalies(df)), Len(df)), Percent)
    ELSE Number(0)

\* df.tail(10).to_html(index=False)
HtmlRecentData(df) == DfTail(df, TailRows)

generate_html_report(df, chart1_png, chart2_png) ==
  LET rate == HtmlAnomalyRate(df)
  IN  [kind |-> "html",
       fault |-> rate.fault,
       total |-> Len(df),
       anomalies |-> Len(HtmlAnomalies(df)),
       anomaly_rate |-> IF rate.fault = "none" THEN Format2f(rate) ELSE -1,
       charts |-> <<B64(chart1_png), B64(chart2_png)>>,
       recent |-> HtmlRecentData(df)]

\* ----------------------------------------------------- PDF report
PdfAnomalies(df) == SelectSeq(df, LAMBDA r : r.prediction = 1)

\* Faulty variant of PdfAnomalyRate: the rate is left as a fraction of one.
PdfAnomalyRateFraction(df) ==
  IF Len(df) # 0
    THEN TrueDiv(Len(PdfAnomalies(df)), Len(df))
    ELSE Number(0)

\* (len(anomalies)/len(df))*100 if len(df) else 0
PdfAnomalyRate(df) ==
  IF Len(df) # 0
    THEN Times(TrueDiv(Len(PdfAnomalies(df)), Len(df)), Percent)
    ELSE Number(0)

\* The flowables appended to story, in order.
PdfStory(df, chart1_png, chart2_png) ==
  << [flowable |-> "Paragraph", text |-> "Cloud Anomaly Detection Report", rows |-> <<>>],
     [flowable |-> "Spacer", text |-> "", rows |-> <<>>],
     [flowable |-> "Paragraph", text |-> "summary", rows |-> <<>>],
     [flowable |-> "Spacer", text |-> "", rows |-> <<>>],
     [flowable |-> "Paragraph", text |-> "Anomaly Trend", rows |-> <<>>],
     [flowable |-> "Image", text |-> chart1_png.title, rows |-> <<>>],
     [flowable |-> "Spacer", text |-> "", rows |-> <<>>],
     [flowable |-> "Paragraph", text |-> "CPU Usage Trend", rows |-> <<>>],
     [flowable |-> "Image", text |-> chart2_png.title, rows |-> <<>>] >>

generate_pdf_report(df, chart1_png, chart2_png) ==
  LET rate == PdfAnomalyRate(df)
  IN  [kind |-> "pdf",
       fault |-> rate.fault,
       total |-> Len(df),
       anomalies |-> Len(PdfAnomalies(df)),
       anomaly_rate |-> IF rate.fault = "none" THEN Format2f(rate) ELSE -1,
       story |-> PdfStory(df, chart1_png, chart2_png)]

\* The records a PDF shows in tabular form: the rows of its Table flowables.
RECURSIVE PdfRecentData(_)
PdfRecentData(story) ==
  IF story = <<>> THEN <<>>
  ELSE (IF Head(story).flowable = "Table" THEN Head(story).rows ELSE <<>>)
       \o PdfRecentData(Tail(story))

\* ------------------------------------------------------------ state
VARIABLES
  history,      \* st.session_state.history, the Sample Store
  pc,           \* position of the script run
  email_to,     \* value of the recipient text input in this run
  pressed,      \* whether "Send Email Report" triggered this run
  calls,        \* functions invoked in this run, in order
  html_report,  \* the name html_report of this run's namespace
  pdf_report,   \* the name pdf_report of this run's namespace
  ui,           \* elements shown by this run, in order
  smtp_log,     \* SMTP steps of this run's session, each with its outcome
  success,      \* the value send_email returned
  fault,        \* the exception that ended this run uncaught, or "none"
  history_at_send  \* the Sample Store when send_email was called

vars == <<history, pc, email_to, pressed, calls, html_report, pdf_report, ui,
          smtp_log, success, fault, history_at_send>>

SmtpOrder == <<"connect", "starttls", "login", "sendmail", "quit">>
SmtpSteps == {SmtpOrder[i] : i \in 1..Len(SmtpOrder)}

\* if "history" not in st.session_state: st.session_state.history = []
Init ==
  /\ history = <<>>
  /\ pc = "idle"
  /\ email_to = <<>>
  /\ pressed = FALSE
  /\ calls = <<>>
  /\ html_report = Undefined
  /\ pdf_report = Undefined
  /\ ui = <<>>
  /\ smtp_log = <<>>
  /\ success = PyUnset
  /\ fault = "none"
  /\ history_at_send = <<>>

Waiting == pc \in {"idle", "done"}

\* The simulation step appends one observation record between two runs.
AppendRecord ==
  /\ Waiting
  /\ Len(history) < MaxHistory
  /\ \E r \in Records : history' = Append(history, r)
  /\ UNCHANGED <<pc, email_to, pressed, calls, html_report, pdf_report, ui,
                 smtp_log, success, fault, history_at_send>>

\* A user interaction reruns the script from the top in a fresh namespace;
\* only st.session_state survives.
Rerun ==
  /\ Waiting
  /\ \E text \in SeqsUpTo(Chars, MaxRecipientLen), click \in BOOLEAN :
       /\ email_to' = text
       /\ pressed' = click
  /\ pc' = "report"
  /\ calls' = <<>>
  /\ html_report' = Undefined
  /\ pdf_report' = Undefined
  /\ ui' = <<>>
  /\ smtp_log' = <<>>
  /\ success' = PyUnset
  /\ fault' = "none"
  /\ history_at_send' = <<>>
  /\ UNCHANGED history

\* Faulty variant of StoreIsEmpty: the emptiness test is missing.
StoreIsEmptyNever(h) == FALSE

\* if len(st.session_state.history) == 0
StoreIsEmpty(h) == Len(h) = 0

\* The download section.
DownloadSection ==
  /\ pc = "report"
  /\ IF StoreIsEmpty(history)
       THEN /\ ui' = Append(ui, "warning: No data available yet.")
            /\ UNCHANGED <<calls, html_report, pdf_report>>
       ELSE LET df == history
                chart1_png == create_anomaly_chart(df)
                chart2_png == create_cpu_chart(df)
            IN  /\ calls' = calls \o <<"create_anomaly_chart", "create_cpu_chart",
                                       "generate_html_report", "generate_pdf_report">>
                /\ html_report' = generate_html_report(df, chart1_png, chart2_png)
                /\ pdf_report' = generate_pdf_report(df, chart1_png, chart2_png)
                /\ ui' = ui \o <<"download: cloud_report.html", "download: cloud_report.pdf">>
  /\ pc' = "email"
  /\ UNCHANGED <<history, email_to, pressed, smtp_log, success, fault, history_at_send>>

\* Faulty variant of RecipientRejected: the text is tested without strip().
RecipientRejectedNoStrip(text) == text = <<>>

\* if not email_to.strip()
RecipientRejected(text) == Strip(text) = <<>>

\* if st.button("Send Email Report"): up to the call of send_email, whose
\* arguments are evaluated first.
ButtonHandler ==
  /\ pc = "email"
  /\ IF ~pressed
       THEN /\ pc' = "done"
            /\ UNCHANGED <<calls, ui, fault, history_at_send>>
       ELSE IF RecipientRejected(email_to)
         THEN /\ ui' = Append(ui, "warning: Enter a valid email address.")
              /\ pc' = "done"
              /\ UNCHANGED <<calls, fault, history_at_send>>
         ELSE IF pdf_report = Undefined \/ html_report = Undefined
           THEN /\ fault' = "NameError"
                /\ pc' = "done"
                /\ UNCHANGED <<calls, ui, history_at_send>>
           ELSE /\ calls' = Append(calls, "send_email")
                /\ history_at_send' = history
                /\ pc' = "connect"
                /\ UNCHANGED <<ui, fault>>
  /\ UNCHANGED <<history, email_to, pressed, html_report, pdf_report, smtp_log, success>>

\* Faulty variant of NextStep: login is placed before starttls.
NextStepLoginFirst(step) ==
  CASE step = "connect" -> "login"
    [] step = "login" -> "starttls"
    [] step = "starttls" -> "sendmail"
    [] step = "sendmail" -> "quit"
    [] step = "quit" -> "return"

\* The statement of the try block that follows a completed step.
NextStep(step) ==
  CASE step = "connect" -> "starttls"
    [] step = "starttls" -> "login"
    [] step = "login" -> "sendmail"
    [] step = "sendmail" -> "quit"
    [] step = "quit" -> "return"

\* Faulty variant of OnException: the except clause does not match the exception,
\* which leaves send_email and ends the run.
OnExceptionPropagates(step) ==
  [value |-> PyUnset, raised |-> "SMTPException", resume |-> "done"]

\* except Exception as e: return str(e)
OnException(step) == [value |-> PyStr(step), raised |-> "none", resume |-> "result"]

\* One statement of send_email's try block: it completes, or it raises and
\* control passes to the except clause.
SmtpStep ==
  /\ pc \in SmtpSteps
  /\ \E ok \in BOOLEAN :
       /\ smtp_log' = Append(smtp_log, [step |-> pc, ok |-> ok])
       /\ IF ok
            THEN IF NextStep(pc) = "return"
                   THEN /\ success' = PyTrue
                        /\ pc' = "result"
                        /\ UNCHANGED fault
                   ELSE /\ pc' = NextStep(pc)
                        /\ UNCHANGED <<success, fault>>
            ELSE /\ success' = OnException(pc).value
                 /\ fault' = OnException(pc).raised
                 /\ pc' = OnException(pc).resume
  /\ UNCHANGED <<history, email_to, pressed, calls, html_report, pdf_report, ui,
                 history_at_send>>

\* if success == True: st.success(...) else: st.error(...)
ShowResult ==
  /\ pc = "result"
  /\ ui' = Append(ui, IF success = PyTrue THEN "success: Email sent successfully!"
                                           ELSE "error: Failed to send")
  /\ pc' = "done"
  /\ UNCHANGED <<history, email_to, pressed, calls, html_report, pdf_report,
                 smtp_log, success, fault, history_at_send>>

Next ==
  \/ AppendRecord
  \/ Rerun
  \/ DownloadSection
  \/ ButtonHandler
  \/ SmtpStep
  \/ ShowResult

Spec == Init /\ [][Next]_vars

\* ------------------------------------- the generators on any snapshot
\* The report generators applied to every snapshot of up to MaxRecords
\* records, the empty one included.
InitReport ==
  /\ history \in SeqsUpTo(SnapshotRecords, MaxRecords)
  /\ pc = "idle"
  /\ email_to = <<>>
  /\ pressed = FALSE
  /\ calls = <<>>
  /\ html_report = Undefined
  /\ pdf_report = Undefined
  /\ ui = <<>>
  /\ smtp_log = <<>>
  /\ success = PyUnset
  /\ fault = "none"
  /\ history_at_send = <<>>

GenerateHtml ==
  /\ html_report = Undefined
  /\ html_report' = generate_html_report(history, create_anomaly_chart(history),
                                         create_cpu_chart(history))
  /\ calls' = Append(calls, "generate_html_report")
  /\ UNCHANGED <<history, pc, email_to, pressed, pdf_report, ui, smtp_log,
                 success, fault, history_at_send>>

GeneratePdf ==
  /\ pdf_report = Undefined
  /\ pdf_report' = generate_pdf_report(history, create_anomaly_chart(history),
                                       create_cpu_chart(history))
  /\ calls' = Append(calls, "generate_pdf_report")
  /\ UNCHANGED <<history, pc, email_to, pressed, html_report, ui, smtp_log,
                 success, fault, history_at_send>>

NextReport == GenerateHtml \/ GeneratePdf

SpecReport == InitReport /\ [][NextReport]_vars

\* ----------------------------------------------------------- claims
Shown(element) == \E i \in 1..Len(ui) : ui[i] = element
Called(f) == \E i \in 1..Len(calls) : calls[i] = f
StepOk(step) == \E i \in 1..Len(smtp_log) : smtp_log[i].step = step /\ smtp_log[i].ok
SomeStepFaulted == \E i \in 1..Len(smtp_log) : ~smtp_log[i].ok
IsPrefix(s, t) == Len(s) <= Len(t) /\ SubSeq(t, 1, Len(s)) = s
AllWhitespace(text) == \A i \in 1..Len(text) : text[i] \in Whitespace
CountAnomalies(df) == Cardinality({i \in 1..Len(df) : df[i].prediction = 1})
Min(a, b) == IF a < b THEN a ELSE b
InRun == pc \notin {"idle", "report", "done"}

\* C1: no user action ends in an uncaught fault; every failure is reported
\* inline, also when Send is pressed with a non-empty recipient while the
\* Sample Store is empty.
C1_NoUncaughtFault == fault = "none"

\* C2: when a step of the SMTP session faults, send_email raises nothing and
\* returns a failure string (never True), the caller shows it as an error,
\* and the Sample Store holds the records it held before the send.
C2_FaultBecomesFailureString ==
  SomeStepFaulted =>
    /\ fault = "none"
    /\ pc \in {"result", "done"}
    /\ success.type = "str"
    /\ success # PyTrue
    /\ pc = "result" => history = history_at_send
    /\ IsPrefix(history_at_send, history)
    /\ pc = "done" => /\ Shown("error: Failed to send")
                      /\ ~Shown("success: Email sent successfully!")

C2_Witness ==
  /\ pc = "done"
  /\ Len(smtp_log) = 3
  /\ ~smtp_log[3].ok
  /\ Len(history) = 2
  /\ Shown("error: Failed to send")

\* C3: Send pressed with a recipient that is empty or all whitespace is
\* rejected with a warning; send_email is not called and no SMTP connection
\* is opened, whatever the Sample Store holds.
C3_BlankRecipientRejected ==
  (pressed /\ AllWhitespace(email_to)) =>
    /\ ~Called("send_email")
    /\ smtp_log = <<>>
    /\ pc \notin SmtpSteps \cup {"result"}
    /\ pc = "done" => /\ Shown("warning: Enter a valid email address.")
                      /\ fault = "none"

C3_Witness ==
  /\ pc = "done"
  /\ pressed
  /\ email_to = <<" ", "\t">>
  /\ Len(history) > 0
  /\ Shown("warning: Enter a valid email address.")

\* C4: whenever the sendmail step completed, the caller is told of success,
\* and a failure is reported only when the message was not sent, whatever
\* the quit step does.
C4_AcceptedMeansSuccess ==
  pc = "done" =>
    /\ StepOk("sendmail") => Shown("success: Email sent successfully!")
    /\ Shown("error: Failed to send") => ~StepOk("sendmail")

\* C5: with an empty Sample Store the report section shows the no-data state
\* and invokes no chart or report function; with a non-empty store it invokes
\* each of the four exactly once, charts before reports.
C5_GeneratorsOnlyOnData ==
  InRun =>
    LET made == SelectSeq(calls, LAMBDA f : f # "send_email")
    IN  IF Len(history) = 0
          THEN /\ Shown("warning: No data available yet.")
               /\ made = <<>>
               /\ html_report = Undefined
               /\ pdf_report = Undefined
          ELSE /\ ~Shown("warning: No data available yet.")
               /\ made = <<"create_anomaly_chart", "create_cpu_chart",
                           "generate_html_report", "generate_pdf_report">>

C5_Witness ==
  /\ pc = "email"
  /\ Len(history) = 0
  /\ Shown("warning: No data available yet.")
  /\ calls = <<>>

\* C6: the HTML and the PDF report made from one snapshot show the same
\* total, the same anomaly count and the same two-decimal anomaly rate.
C6_SameSummary ==
  (html_report # Undefined /\ pdf_report # Undefined) =>
    /\ html_report.total = pdf_report.total
    /\ html_report.anomalies = pdf_report.anomalies
    /\ html_report.anomaly_rate = pdf_report.anomaly_rate
    /\ html_report.fault = pdf_report.fault

C6_Witness ==
  /\ html_report # Undefined
  /\ pdf_report # Undefined
  /\ Len(history) = 12
  /\ html_report.anomalies = 3
  /\ pdf_report.anomaly_rate = 2500

SummaryInRange(r, df) ==
  /\ r.fault = "none"
  /\ r.total = Len(df)
  /\ r.anomalies = CountAnomalies(df)
  /\ r.anomalies <= r.total
  /\ 0 <= r.anomaly_rate /\ r.anomaly_rate <= 100 * 100
  \* the rate shown is anomalies / total * 100 to the nearest hundredth
  /\ 2 * (r.anomaly_rate * r.total - r.anomalies * 100 * 100) <= r.total
  /\ 2 * (r.anomalies * 100 * 100 - r.anomaly_rate * r.total) <= r.total
  /\ (r.total = 12 /\ r.anomalies = 3) => r.anomaly_rate = 2500

\* C7: for a non-empty snapshot with predictions 0 or 1, anomalies <= total
\* and 0 <= anomaly_rate <= 100 with anomaly_rate = anomalies / total * 100
\* (12 records with 3 anomalies: 3 and 25.00), in both generators.
C7_RateInRange ==
  Len(history) > 0 =>
    /\ html_report # Undefined => SummaryInRange(html_report, history)
    /\ pdf_report # Undefined => SummaryInRange(pdf_report, history)

C7_Witness ==
  /\ Len(history) = 12
  /\ CountAnomalies(history) = 3
  /\ html_report # Undefined
  /\ html_report.anomaly_rate = 2500
  /\ pdf_report # Undefined

ExpectedTail(df) ==
  [i \in 1..Min(10, Len(df)) |-> df[Len(df) - Min(10, Len(df)) + i]]

\* C9: the tail excerpt of every generated report, HTML and PDF alike, holds
\* exactly min(10, total) records: the last ones of the snapshot, in arrival
\* order.
C9_TailInEveryReport ==
  /\ html_report # Undefined => html_report.recent = ExpectedTail(history)
  /\ pdf_report # Undefined => PdfRecentData(pdf_report.story) = ExpectedTail(history)

\* C10: one invocation of send_email makes one delivery attempt, its steps in
\* the order connect, STARTTLS, login, sendmail, quit, each at most once, and
\* none after the first step that fails.
C10_OneOrderedAttempt ==
  /\ Len(smtp_log) <= 5
  /\ \A i \in 1..Len(smtp_log) :
       smtp_log[i].step = <<"connect", "starttls", "login", "sendmail", "quit">>[i]
  /\ \A i \in 1..(Len(smtp_log) - 1) : smtp_log[i].ok
  /\ pc \in SmtpSteps =>
       pc = <<"connect", "starttls", "login", "sendmail", "quit">>[Len(smtp_log) + 1]
  /\ Cardinality({i \in 1..Len(calls) : calls[i] = "send_email"}) <= 1
  /\ smtp_log # <<>> => Called("send_email")
  /\ success = PyTrue => Len(smtp_log) = 5 /\ smtp_log[5].ok

C10_Witness ==
  /\ pc = "done"
  /\ Len(smtp_log) = 5
  /\ smtp_log[5].ok
  /\ success = PyTrue

====
